---- MODULE Spec2Model ----
(***************************************************************************)
(* Model of provider/amazon_provider.go: AmazonProvider.ForgeApplication   *)
(* (the ordered step interpreter) and AmazonProvider.TearDown (the         *)
(* compensator), together with the remote resources they act on.           *)
(*                                                                         *)
(* Go strings are modelled as sequences of tokens; the empty string, which *)
(* is what a lookup in a missing map entry yields, is the empty sequence.  *)
(***************************************************************************)
EXTENDS Integers, Sequences, FiniteSets, TLC

\* ------------------------------------------------------------------ bounds
MaxSteps == 4

MaxPayloadLen == 3

MaxSubs == 2

MaxTearDowns == 2

\* ------------------------------------------------------- values and inputs
Recognized == {"s3", "policy", "role", "bind_role"}

StepNames == Recognized \cup {"lambda"}

EmptyString == <<>>

EmptyMap == [k \in {} |-> EmptyString]

NilErr == <<"nil">>

\* a result field CreatePayload has not written
Unset == <<"unset">>

ApplicationType == <<"insights", "platform", "cost-management">>

GUID == "g1"

PolicyArns == {<<"arn", "policy", "1">>, <<"arn", "policy", "2">>}

RoleArns == {<<"arn", "role", "1">>, <<"arn", "role", "2">>}

Requests == UNION {[1..n -> StepNames] : n \in 0..MaxSteps}

\* request.Extra of the requests that are forged
RequestExtra == [account |-> <<"12345">>]

\* step.Payload of the policy and role steps
StepPayload(name) ==
  IF name = "policy"
    THEN <<"resource:", "BUCKET", ",account:", "ACCOUNT">>
    ELSE <<"principal:", "ACCOUNT">>

\* step.Substitutions of the policy and role steps
StepSubstitutions(name) ==
  IF name = "policy"
    THEN [t \in {<<"BUCKET">>, <<"ACCOUNT">>} |->
            IF t = <<"BUCKET">> THEN "s3" ELSE "get_account"]
    ELSE [t \in {<<"ACCOUNT">>} |-> "get_account"]

\* the inputs substiteInPayload is explored on: strings over two characters
Chars == {"a", "b"}

StringsUpTo(n) == UNION {[1..k -> Chars] : k \in 0..n}

Payloads == StringsUpTo(MaxPayloadLen)

\* the placeholder tokens: two that overlap, and each a prefix of another
Tokens == {<<"a">>, <<"b">>, <<"a", "b">>, <<"b", "a">>}

Sources == {"get_account", "s3", "policy"}

SubMaps ==
  UNION {[T -> Sources] : T \in {U \in SUBSET Tokens : Cardinality(U) <= MaxSubs}}

SubLedgers ==
  {EmptyMap,
   [k \in {"s3"} |-> [output |-> <<"a">>]],
   [k \in {"s3"} |-> [output |-> <<"b", "b">>]],
   [k \in {"s3", "policy"} |->
      IF k = "s3" THEN [output |-> <<"a">>] ELSE [output |-> <<"b">>]]}

SubExtras == {EmptyMap, [account |-> <<"b">>], [account |-> <<"a", "a">>]}

EmptyWorld == [buckets |-> {}, policies |-> {}, roles |-> {}, bindings |-> {}]

\* ---------------------------------------------------------------- helpers
\* path.Base of a slash-separated name, given as its sequence of elements
Base(name) == IF Len(name) = 0 THEN "." ELSE name[Len(name)]

getShortName(name) == <<"redhat", Base(name)>>

\* fmt.Sprintf("%v-<kind>-%v", getShortName(f.Request.ApplicationType), f.GUID)
ResourceName(kind) == getShortName(ApplicationType) \o <<kind, GUID>>

\* m[k1][k2] of a map[string]map[string]string: the zero value when absent
Lookup(m, k1, k2) ==
  IF k1 \in DOMAIN m /\ k2 \in DOMAIN m[k1] THEN m[k1][k2] ELSE EmptyString

\* variant: the presence test always passes
NotNil_Always(m, k) == TRUE

\* m[k] != nil
NotNil(m, k) == k \in DOMAIN m

\* ForgedApplication.MarkCompleted(name, data): StepsCompleted[name] = data
MarkCompleted(m, name, data) ==
  [k \in DOMAIN m \cup {name} |-> IF k = name THEN data ELSE m[k]]

ErrOf(op) == <<"error", op>>

Call(op, args, ok, ret) == [op |-> op, args |-> args, ok |-> ok, ret |-> ret]

\* ------------------------------------------------------- substiteInPayload
\* strings.Index(s[start-1:], old), as a 1-based position in s; 0 when absent
Index(s, old, start) ==
  LET hits == {j \in start..(Len(s) - Len(old) + 1) : SubSeq(s, j, j + Len(old) - 1) = old}
  IN  IF hits = {} THEN 0 ELSE CHOOSE j \in hits : \A k \in hits : j <= k

RECURSIVE ReplaceFrom(_, _, _, _)
\* the copy loop of strings.Replace for a non-empty old, from position start
ReplaceFrom(s, old, new, start) ==
  LET j == Index(s, old, start)
  IN  IF j = 0
        THEN SubSeq(s, start, Len(s))
        ELSE SubSeq(s, start, j - 1) \o new \o ReplaceFrom(s, old, new, j + Len(old))

RECURSIVE Interleave(_, _, _)
\* strings.Replace for an empty old: new before every character and at the end
Interleave(s, new, i) ==
  IF i > Len(s) THEN new ELSE new \o <<s[i]>> \o Interleave(s, new, i + 1)

\* strings.Replace(s, old, new, -1)
Replace(s, old, new) ==
  IF old = EmptyString THEN Interleave(s, new, 1) ELSE ReplaceFrom(s, old, new, 1)

\* m[k] of a map[string]string: the zero value when absent
Get(m, k) == IF k \in DOMAIN m THEN m[k] ELSE EmptyString

\* variant: an entry whose value is empty is skipped
SubstituteOne_SkipEmpty(payload, sc, ex, name, sub) ==
  CASE sub = "get_account" /\ Get(ex, "account") # EmptyString ->
         Replace(payload, name, Get(ex, "account"))
    [] sub = "s3" /\ Lookup(sc, "s3", "output") # EmptyString ->
         Replace(payload, name, Lookup(sc, "s3", "output"))
    [] OTHER -> payload

\* variant: the s3 case reads the entry's arn
SubstituteOne_S3Arn(payload, sc, ex, name, sub) ==
  CASE sub = "get_account" -> Replace(payload, name, Get(ex, "account"))
    [] sub = "s3" -> Replace(payload, name, Lookup(sc, "s3", "arn"))
    [] OTHER -> payload

\* one iteration of the range loop: the entry name -> sub
SubstituteOne(payload, sc, ex, name, sub) ==
  CASE sub = "get_account" -> Replace(payload, name, Get(ex, "account"))
    [] sub = "s3" -> Replace(payload, name, Lookup(sc, "s3", "output"))
    [] OTHER -> payload

RECURSIVE SubstituteRest(_, _, _, _, _)
\* the payloads the loop can end with when the entries in rest are still to
\* be visited: the order in which range visits a map is not specified
SubstituteRest(payload, sc, ex, substitutions, rest) ==
  IF rest = {}
    THEN {payload}
    ELSE UNION {SubstituteRest(SubstituteOne(payload, sc, ex, name, substitutions[name]),
                               sc, ex, substitutions, rest \ {name}) : name \in rest}

\* the values substiteInPayload(payload, f, substitutions) can return
substiteInPayload(payload, sc, ex, substitutions) ==
  SubstituteRest(payload, sc, ex, substitutions, DOMAIN substitutions)

\* the record of a substiteInPayload call that is not being explored
NoSubst == [payload |-> EmptyString, subs |-> EmptyMap, cur |-> EmptyString, todo |-> {}]

\* --------------------------------------------- the remote resource client
ClientCreateS3Bucket(w, name) == [w EXCEPT !.buckets = @ \cup {name}]

ClientCreatePolicy(w, arn) == [w EXCEPT !.policies = @ \cup {arn}]

ClientCreateRole(w, name) == [w EXCEPT !.roles = @ \cup {name}]

ClientBindPolicyToRole(w, policyArn, roleName) ==
  [w EXCEPT !.bindings = @ \cup {<<policyArn, roleName>>}]

ClientUnBindPolicyToRole(w, policyArn, roleName) ==
  [w EXCEPT !.bindings = @ \ {<<policyArn, roleName>>}]

ClientDestroyPolicy(w, arn) == [w EXCEPT !.policies = @ \ {arn}]

ClientDestroyRole(w, name) == [w EXCEPT !.roles = @ \ {name}]

ClientDestroyS3Bucket(w, name) == [w EXCEPT !.buckets = @ \ {name}]

\* ------------------------------------------------- a second invocation
\* generateGUID() of the second invocation: another value, or by chance the same
Guids == {"g1", "g2"}

ResourceNameFor(kind, guid) == getShortName(ApplicationType) \o <<kind, guid>>

\* the requests two invocations are run on at the same time
ConcRequests ==
  {<<"s3", "policy", "role", "bind_role">>,
   <<"role", "lambda", "policy">>,
   <<"bind_role", "s3">>,
   <<"policy", "policy">>}

\* the second invocation before it is called, with request r and GUID g
OtherOf(r, g) ==
  [request |-> r, guid |-> g, pc |-> "idle", idx |-> 1, StepsCompleted |-> EmptyMap,
   username |-> Unset, err |-> NilErr, calls |-> <<>>]

NoOther == OtherOf(<<>>, "g2")

\* variant: the ledger is kept on the provider and a new call starts from it
NewLedger_Kept(current) == current

\* StepsCompleted: make(map[string]map[string]string), whatever ledger the
\* provider is working on in another invocation
NewLedger(current) == EmptyMap

\* ------------------------------------------------------------------ state
VARIABLES
  request,         \* request.SuperKeySteps: the step names, in order
  pc,              \* where the caller / the running method is
  idx,             \* position of the step being interpreted (1-based)
  StepsCompleted,  \* f.StepsCompleted
  username,        \* the ledger's result username; Unset until CreatePayload
  err,             \* the error ForgeApplication returned
  errors,          \* the error list TearDown is building / returned
  calls,           \* every remote call issued so far, with its outcome
  world,           \* the remote resources that exist
  appType,         \* the ledger's result application type; Unset until CreatePayload
  extra,           \* request.Extra
  subst,           \* a substiteInPayload call: its arguments, its payload
                   \* variable and the map entries range has yet to visit
  runStart,        \* for each TearDown call so far, the length calls had when
                   \* it began
  other            \* a second ForgeApplication invocation on the same provider:
                   \* its request, position, ledger, result and own calls

vars == <<request, pc, idx, StepsCompleted, username, err, errors, calls, world,
          appType, extra, subst, runStart, other>>

Init ==
  /\ request \in Requests
  /\ pc = "forge"
  /\ idx = 1
  /\ StepsCompleted = EmptyMap
  /\ username = Unset
  /\ err = NilErr
  /\ errors = <<>>
  /\ calls = <<>>
  /\ world = EmptyWorld
  /\ appType = Unset
  /\ extra = RequestExtra
  /\ subst = NoSubst
  /\ runStart = <<>>
  /\ other = NoOther

InLoop == pc = "forge" /\ idx <= Len(request)

\* ------------------------------------------------------- ForgeApplication
S3Data(name) == [output |-> name]

\* variant: the step is marked completed before the error is looked at
ForgeS3_MarkBeforeCheck ==
  /\ InLoop /\ request[idx] = "s3"
  /\ LET name == ResourceName("bucket") IN
     \E ok \in BOOLEAN :
       /\ calls' = Append(calls, Call("CreateS3Bucket", <<name>>, ok, EmptyString))
       /\ StepsCompleted' = MarkCompleted(StepsCompleted, "s3", S3Data(name))
       /\ IF ok
            THEN /\ world' = ClientCreateS3Bucket(world, name)
                 /\ idx' = idx + 1
                 /\ UNCHANGED <<pc, err>>
            ELSE /\ pc' = "returned"
                 /\ err' = ErrOf("CreateS3Bucket")
                 /\ UNCHANGED <<world, idx>>
  /\ UNCHANGED <<request, extra, subst, other, runStart, appType, username, errors>>

ForgeS3 ==
  /\ InLoop /\ request[idx] = "s3"
  /\ LET name == ResourceName("bucket") IN
     \E ok \in BOOLEAN :
       /\ calls' = Append(calls, Call("CreateS3Bucket", <<name>>, ok, EmptyString))
       /\ IF ok
            THEN /\ world' = ClientCreateS3Bucket(world, name)
                 /\ StepsCompleted' = MarkCompleted(StepsCompleted, "s3", S3Data(name))
                 /\ idx' = idx + 1
                 /\ UNCHANGED <<pc, err>>
            ELSE /\ pc' = "returned"
                 /\ err' = ErrOf("CreateS3Bucket")
                 /\ UNCHANGED <<world, StepsCompleted, idx>>
  /\ UNCHANGED <<request, extra, subst, other, runStart, appType, username, errors>>

PolicyData(arn) == [output |-> arn]

\* variant: a failed call is logged but the loop goes on
ForgePolicy_NoAbort ==
  /\ InLoop /\ request[idx] = "policy"
  /\ LET name == ResourceName("policy") IN
     \E payload \in substiteInPayload(StepPayload("policy"), StepsCompleted, extra,
                                       StepSubstitutions("policy")) :
     \E ok \in BOOLEAN : \E arn \in (IF ok THEN PolicyArns ELSE {EmptyString}) :
       /\ calls' = Append(calls, Call("CreatePolicy", <<name, payload>>, ok, arn))
       /\ IF ok
            THEN /\ world' = ClientCreatePolicy(world, arn)
                 /\ StepsCompleted' = MarkCompleted(StepsCompleted, "policy", PolicyData(arn))
                 /\ idx' = idx + 1
                 /\ UNCHANGED <<pc, err>>
            ELSE /\ idx' = idx + 1
                 /\ UNCHANGED <<world, StepsCompleted, pc, err>>
  /\ UNCHANGED <<request, extra, subst, other, runStart, appType, username, errors>>

ForgePolicy ==
  /\ InLoop /\ request[idx] = "policy"
  /\ LET name == ResourceName("policy") IN
     \E payload \in substiteInPayload(StepPayload("policy"), StepsCompleted, extra,
                                       StepSubstitutions("policy")) :
     \E ok \in BOOLEAN : \E arn \in (IF ok THEN PolicyArns ELSE {EmptyString}) :
       /\ calls' = Append(calls, Call("CreatePolicy", <<name, payload>>, ok, arn))
       /\ IF ok
            THEN /\ world' = ClientCreatePolicy(world, arn)
                 /\ StepsCompleted' = MarkCompleted(StepsCompleted, "policy", PolicyData(arn))
                 /\ idx' = idx + 1
                 /\ UNCHANGED <<pc, err>>
            ELSE /\ pc' = "returned"
                 /\ err' = ErrOf("CreatePolicy")
                 /\ UNCHANGED <<world, StepsCompleted, idx>>
  /\ UNCHANGED <<request, extra, subst, other, runStart, appType, username, errors>>

RoleData(name, roleArn) == [output |-> name, arn |-> roleArn]

\* variant: a failed role creation undoes the bucket before returning
ForgeRole_Compensates ==
  /\ InLoop /\ request[idx] = "role"
  /\ LET name == ResourceName("role") IN
     \E payload \in substiteInPayload(StepPayload("role"), StepsCompleted, extra,
                                       StepSubstitutions("role")) :
     \E ok \in BOOLEAN : \E roleArn \in (IF ok THEN RoleArns ELSE {EmptyString}) :
       /\ IF ok
            THEN /\ calls' = Append(calls, Call("CreateRole", <<name, payload>>, ok, roleArn))
                 /\ world' = ClientCreateRole(world, name)
                 /\ StepsCompleted' = MarkCompleted(StepsCompleted, "role", RoleData(name, roleArn))
                 /\ idx' = idx + 1
                 /\ UNCHANGED <<pc, err>>
            ELSE /\ calls' = calls \o <<Call("CreateRole", <<name, payload>>, ok, roleArn),
                                        Call("DestroyS3Bucket", <<ResourceName("bucket")>>, TRUE, EmptyString)>>
                 /\ world' = ClientDestroyS3Bucket(world, ResourceName("bucket"))
                 /\ pc' = "returned"
                 /\ err' = ErrOf("CreateRole")
                 /\ UNCHANGED <<StepsCompleted, idx>>
  /\ UNCHANGED <<request, extra, subst, other, runStart, appType, username, errors>>

\* variant: the username is written as soon as the role exists
ForgeRole_SetsUsername ==
  /\ InLoop /\ request[idx] = "role"
  /\ LET name == ResourceName("role") IN
     \E payload \in substiteInPayload(StepPayload("role"), StepsCompleted, extra,
                                       StepSubstitutions("role")) :
     \E ok \in BOOLEAN : \E roleArn \in (IF ok THEN RoleArns ELSE {EmptyString}) :
       /\ calls' = Append(calls, Call("CreateRole", <<name, payload>>, ok, roleArn))
       /\ IF ok
            THEN /\ world' = ClientCreateRole(world, name)
                 /\ StepsCompleted' = MarkCompleted(StepsCompleted, "role", RoleData(name, roleArn))
                 /\ username' = roleArn
                 /\ idx' = idx + 1
                 /\ UNCHANGED <<pc, err>>
            ELSE /\ pc' = "returned"
                 /\ err' = ErrOf("CreateRole")
                 /\ UNCHANGED <<world, StepsCompleted, idx, username>>
  /\ UNCHANGED <<request, extra, subst, other, runStart, appType, errors>>

ForgeRole ==
  /\ InLoop /\ request[idx] = "role"
  /\ LET name == ResourceName("role") IN
     \E payload \in substiteInPayload(StepPayload("role"), StepsCompleted, extra,
                                       StepSubstitutions("role")) :
     \E ok \in BOOLEAN : \E roleArn \in (IF ok THEN RoleArns ELSE {EmptyString}) :
       /\ calls' = Append(calls, Call("CreateRole", <<name, payload>>, ok, roleArn))
       /\ IF ok
            THEN /\ world' = ClientCreateRole(world, name)
                 /\ StepsCompleted' = MarkCompleted(StepsCompleted, "role", RoleData(name, roleArn))
                 /\ idx' = idx + 1
                 /\ UNCHANGED <<pc, err>>
            ELSE /\ pc' = "returned"
                 /\ err' = ErrOf("CreateRole")
                 /\ UNCHANGED <<world, StepsCompleted, idx>>
  /\ UNCHANGED <<request, extra, subst, other, runStart, appType, username, errors>>

\* variant: the bind is recorded whatever the call returned
ForgeBindRole_IgnoreErr ==
  /\ InLoop /\ request[idx] = "bind_role"
  /\ LET roleName == Lookup(StepsCompleted, "role", "output")
         policyArn == Lookup(StepsCompleted, "policy", "output") IN
     \E ok \in BOOLEAN :
       /\ calls' = Append(calls, Call("BindPolicyToRole", <<policyArn, roleName>>, ok, EmptyString))
       /\ world' = IF ok THEN ClientBindPolicyToRole(world, policyArn, roleName) ELSE world
       /\ StepsCompleted' = MarkCompleted(StepsCompleted, "bind_role", EmptyMap)
       /\ idx' = idx + 1
       /\ UNCHANGED <<pc, err>>
  /\ UNCHANGED <<request, extra, subst, other, runStart, appType, username, errors>>

ForgeBindRole ==
  /\ InLoop /\ request[idx] = "bind_role"
  /\ LET roleName == Lookup(StepsCompleted, "role", "output")
         policyArn == Lookup(StepsCompleted, "policy", "output") IN
     \E ok \in BOOLEAN :
       /\ calls' = Append(calls, Call("BindPolicyToRole", <<policyArn, roleName>>, ok, EmptyString))
       /\ IF ok
            THEN /\ world' = ClientBindPolicyToRole(world, policyArn, roleName)
                 /\ StepsCompleted' = MarkCompleted(StepsCompleted, "bind_role", EmptyMap)
                 /\ idx' = idx + 1
                 /\ UNCHANGED <<pc, err>>
            ELSE /\ pc' = "returned"
                 /\ err' = ErrOf("BindPolicyToRole")
                 /\ UNCHANGED <<world, StepsCompleted, idx>>
  /\ UNCHANGED <<request, extra, subst, other, runStart, appType, username, errors>>

\* variant: an unknown step is recorded as completed
ForgeDefault_Marks ==
  /\ InLoop /\ request[idx] \notin Recognized
  /\ StepsCompleted' = MarkCompleted(StepsCompleted, request[idx], EmptyMap)
  /\ idx' = idx + 1
  /\ UNCHANGED <<request, extra, subst, other, runStart, appType, pc, username, err, errors, calls, world>>

\* variant: an unknown step is an error
ForgeDefault_Fails ==
  /\ InLoop /\ request[idx] \notin Recognized
  /\ pc' = "returned"
  /\ err' = ErrOf("not implemented")
  /\ UNCHANGED <<request, extra, subst, other, runStart, appType, idx, StepsCompleted, username, errors, calls, world>>

\* variant: the loop does not move past an unknown step
ForgeDefault_NoAdvance ==
  /\ InLoop /\ request[idx] \notin Recognized
  /\ idx' = idx
  /\ UNCHANGED <<request, extra, subst, other, runStart, appType, pc, StepsCompleted, username, err, errors, calls, world>>

ForgeDefault ==
  /\ InLoop /\ request[idx] \notin Recognized
  /\ idx' = idx + 1
  /\ UNCHANGED <<request, extra, subst, other, runStart, appType, pc, StepsCompleted, username, err, errors, calls, world>>

\* variant: the role's name is taken instead of its ARN
RoleArnOf_Output(m) == Lookup(m, "role", "output")

\* username := f.StepsCompleted["role"]["arn"]
RoleArnOf(m) == Lookup(m, "role", "arn")

\* ForgedApplication.CreatePayload(&username, nil, &appType): the result username
CreatePayload(u) == u

ForgeReturn ==
  /\ pc = "forge" /\ idx > Len(request)
  /\ username' = CreatePayload(RoleArnOf(StepsCompleted))
  /\ appType' = <<Base(ApplicationType)>>
  /\ pc' = "returned"
  /\ UNCHANGED <<request, extra, subst, other, runStart, idx, StepsCompleted, err, errors, calls, world>>

\* ---------------------------------------------------------------- TearDown
\* variant: the blocks run in creation order
TearDownOrder_Forward == <<"td_s3", "td_policy", "td_role", "td_bind_role">>

\* the blocks of TearDown, in the order the method runs them
TearDownOrder == <<"td_bind_role", "td_policy", "td_role", "td_s3">>

\* where control goes when block b is finished
After(b) ==
  LET i == CHOOSE j \in 1..Len(TearDownOrder) : TearDownOrder[j] = b
  IN  IF i < Len(TearDownOrder) THEN TearDownOrder[i + 1] ELSE "td_returned"

TearDownBegin ==
  /\ pc = "returned"
  /\ errors' = <<>>
  /\ runStart' = Append(runStart, Len(calls))
  /\ pc' = TearDownOrder[1]
  /\ UNCHANGED <<request, extra, subst, other, appType, idx, StepsCompleted, username, err, calls, world>>

TearDownUnbind ==
  /\ pc = "td_bind_role"
  /\ pc' = After("td_bind_role")
  /\ IF NotNil(StepsCompleted, "bind_role")
       THEN LET policyArn == Lookup(StepsCompleted, "policy", "output")
                role == Lookup(StepsCompleted, "role", "output") IN
            \E ok \in BOOLEAN :
              /\ calls' = Append(calls, Call("UnBindPolicyToRole", <<policyArn, role>>, ok, EmptyString))
              /\ world' = IF ok THEN ClientUnBindPolicyToRole(world, policyArn, role) ELSE world
              /\ errors' = IF ok THEN errors ELSE Append(errors, ErrOf("UnBindPolicyToRole"))
       ELSE UNCHANGED <<calls, world, errors>>
  /\ UNCHANGED <<request, extra, subst, other, runStart, appType, idx, StepsCompleted, username, err>>

\* variant: a failed destroy ends the sweep
TearDownPolicy_ShortCircuit ==
  /\ pc = "td_policy"
  /\ IF NotNil(StepsCompleted, "policy")
       THEN LET policyArn == Lookup(StepsCompleted, "policy", "output") IN
            \E ok \in BOOLEAN :
              /\ calls' = Append(calls, Call("DestroyPolicy", <<policyArn>>, ok, EmptyString))
              /\ world' = IF ok THEN ClientDestroyPolicy(world, policyArn) ELSE world
              /\ errors' = IF ok THEN errors ELSE Append(errors, ErrOf("DestroyPolicy"))
              /\ pc' = IF ok THEN After("td_policy") ELSE "td_returned"
       ELSE pc' = After("td_policy") /\ UNCHANGED <<calls, world, errors>>
  /\ UNCHANGED <<request, extra, subst, other, runStart, appType, idx, StepsCompleted, username, err>>

TearDownPolicy ==
  /\ pc = "td_policy"
  /\ pc' = After("td_policy")
  /\ IF NotNil(StepsCompleted, "policy")
       THEN LET policyArn == Lookup(StepsCompleted, "policy", "output") IN
            \E ok \in BOOLEAN :
              /\ calls' = Append(calls, Call("DestroyPolicy", <<policyArn>>, ok, EmptyString))
              /\ world' = IF ok THEN ClientDestroyPolicy(world, policyArn) ELSE world
              /\ errors' = IF ok THEN errors ELSE Append(errors, ErrOf("DestroyPolicy"))
       ELSE UNCHANGED <<calls, world, errors>>
  /\ UNCHANGED <<request, extra, subst, other, runStart, appType, idx, StepsCompleted, username, err>>

TearDownRole ==
  /\ pc = "td_role"
  /\ pc' = After("td_role")
  /\ IF NotNil(StepsCompleted, "role")
       THEN LET roleName == Lookup(StepsCompleted, "role", "output") IN
            \E ok \in BOOLEAN :
              /\ calls' = Append(calls, Call("DestroyRole", <<roleName>>, ok, EmptyString))
              /\ world' = IF ok THEN ClientDestroyRole(world, roleName) ELSE world
              /\ errors' = IF ok THEN errors ELSE Append(errors, ErrOf("DestroyRole"))
       ELSE UNCHANGED <<calls, world, errors>>
  /\ UNCHANGED <<request, extra, subst, other, runStart, appType, idx, StepsCompleted, username, err>>

\* variant: a bucket that was destroyed is taken off the ledger
TearDownS3_Forgets ==
  /\ pc = "td_s3"
  /\ pc' = After("td_s3")
  /\ IF NotNil(StepsCompleted, "s3")
       THEN LET bucket == Lookup(StepsCompleted, "s3", "output") IN
            \E ok \in BOOLEAN :
              /\ calls' = Append(calls, Call("DestroyS3Bucket", <<bucket>>, ok, EmptyString))
              /\ world' = IF ok THEN ClientDestroyS3Bucket(world, bucket) ELSE world
              /\ errors' = IF ok THEN errors ELSE Append(errors, ErrOf("DestroyS3Bucket"))
              /\ StepsCompleted' =
                   IF ok THEN [k \in DOMAIN StepsCompleted \ {"s3"} |-> StepsCompleted[k]]
                   ELSE StepsCompleted
       ELSE UNCHANGED <<calls, world, errors, StepsCompleted>>
  /\ UNCHANGED <<request, extra, subst, other, runStart, appType, idx, username, err>>

TearDownS3 ==
  /\ pc = "td_s3"
  /\ pc' = After("td_s3")
  /\ IF NotNil(StepsCompleted, "s3")
       THEN LET bucket == Lookup(StepsCompleted, "s3", "output") IN
            \E ok \in BOOLEAN :
              /\ calls' = Append(calls, Call("DestroyS3Bucket", <<bucket>>, ok, EmptyString))
              /\ world' = IF ok THEN ClientDestroyS3Bucket(world, bucket) ELSE world
              /\ errors' = IF ok THEN errors ELSE Append(errors, ErrOf("DestroyS3Bucket"))
       ELSE UNCHANGED <<calls, world, errors>>
  /\ UNCHANGED <<request, extra, subst, other, runStart, appType, idx, StepsCompleted, username, err>>

\* ------------------------------------------- substiteInPayload, on its own
InitSub ==
  /\ request = <<>>
  /\ pc = "subst"
  /\ idx = 1
  /\ StepsCompleted \in SubLedgers
  /\ username = Unset
  /\ err = NilErr
  /\ errors = <<>>
  /\ calls = <<>>
  /\ world = EmptyWorld
  /\ appType = Unset
  /\ extra \in SubExtras
  /\ \E p \in Payloads : \E m \in SubMaps :
       subst = [payload |-> p, subs |-> m, cur |-> p, todo |-> DOMAIN m]
  /\ runStart = <<>>
  /\ other = NoOther

\* one iteration of "for name, sub := range substitutions"
SubstRange ==
  /\ pc = "subst"
  /\ \E name \in subst.todo :
       subst' = [subst EXCEPT
                   !.cur = SubstituteOne(subst.cur, StepsCompleted, extra, name, subst.subs[name]),
                   !.todo = @ \ {name}]
  /\ UNCHANGED <<request, pc, idx, StepsCompleted, username, err, errors, calls, world,
                 appType, extra, runStart, other>>

\* return payload
SubstReturn ==
  /\ pc = "subst"
  /\ subst.todo = {}
  /\ pc' = "subst_returned"
  /\ UNCHANGED <<request, idx, StepsCompleted, username, err, errors, calls, world,
                 appType, extra, subst, runStart, other>>

NextSub == SubstRange \/ SubstReturn

SpecSub == InitSub /\ [][NextSub]_vars

\* ------------------------------------------------ TearDown, called again
InSteps(S, n) == n \in S

\* the requests whose ledgers TearDown is called on repeatedly: the steps of
\* the full request with an unrecognized one among them, any of them left out
AgainRequests == {SelectSeq(<<"s3", "policy", "lambda", "role", "bind_role">>,
                            LAMBDA n : InSteps(S, n)) : S \in SUBSET StepNames}

InitAgain ==
  /\ request \in AgainRequests
  /\ pc = "forge"
  /\ idx = 1
  /\ StepsCompleted = EmptyMap
  /\ username = Unset
  /\ err = NilErr
  /\ errors = <<>>
  /\ calls = <<>>
  /\ world = EmptyWorld
  /\ appType = Unset
  /\ extra = RequestExtra
  /\ subst = NoSubst
  /\ runStart = <<>>
  /\ other = NoOther

\* the caller hands the same ledger to TearDown once more
TearDownAgain ==
  /\ pc = "td_returned"
  /\ Len(runStart) < MaxTearDowns
  /\ errors' = <<>>
  /\ runStart' = Append(runStart, Len(calls))
  /\ pc' = TearDownOrder[1]
  /\ UNCHANGED <<request, extra, subst, other, appType, idx, StepsCompleted, username, err, calls, world>>

\* --------------------------------- ForgeApplication, a second time at once
OtherBegin ==
  /\ other.pc = "idle"
  /\ other' = [other EXCEPT !.pc = "forge", !.StepsCompleted = NewLedger(StepsCompleted)]
  /\ UNCHANGED <<request, pc, idx, StepsCompleted, username, err, errors, calls, world,
                 appType, extra, subst, runStart>>

\* one pass of the second invocation through the loop body
OtherStep ==
  /\ other.pc = "forge" /\ other.idx <= Len(other.request)
  /\ LET name == other.request[other.idx]
         sc == other.StepsCompleted
         bucket == ResourceNameFor("bucket", other.guid)
         policy == ResourceNameFor("policy", other.guid)
         role == ResourceNameFor("role", other.guid)
         roleName == Lookup(sc, "role", "output")
         policyArn == Lookup(sc, "policy", "output")
     IN
     IF name \notin Recognized
       THEN other' = [other EXCEPT !.idx = @ + 1] /\ UNCHANGED world
       ELSE
         \E ok \in BOOLEAN :
         \E ret \in (IF ~ok \/ name \in {"s3", "bind_role"} THEN {EmptyString}
                     ELSE IF name = "policy" THEN PolicyArns ELSE RoleArns) :
         \E payload \in (IF name \in {"policy", "role"}
                           THEN substiteInPayload(StepPayload(name), sc, extra,
                                                  StepSubstitutions(name))
                           ELSE {EmptyString}) :
           LET call == CASE name = "s3" -> Call("CreateS3Bucket", <<bucket>>, ok, ret)
                         [] name = "policy" -> Call("CreatePolicy", <<policy, payload>>, ok, ret)
                         [] name = "role" -> Call("CreateRole", <<role, payload>>, ok, ret)
                         [] name = "bind_role" ->
                              Call("BindPolicyToRole", <<policyArn, roleName>>, ok, ret)
               data == CASE name = "s3" -> S3Data(bucket)
                         [] name = "policy" -> PolicyData(ret)
                         [] name = "role" -> RoleData(role, ret)
                         [] name = "bind_role" -> EmptyMap
               made == CASE name = "s3" -> ClientCreateS3Bucket(world, bucket)
                         [] name = "policy" -> ClientCreatePolicy(world, ret)
                         [] name = "role" -> ClientCreateRole(world, role)
                         [] name = "bind_role" ->
                              ClientBindPolicyToRole(world, policyArn, roleName)
           IN  IF ok
                 THEN /\ world' = made
                      /\ other' = [other EXCEPT !.calls = Append(@, call),
                                                !.StepsCompleted = MarkCompleted(sc, name, data),
                                                !.idx = @ + 1]
                 ELSE /\ world' = world
                      /\ other' = [other EXCEPT !.calls = Append(@, call),
                                                !.pc = "returned",
                                                !.err = ErrOf(call.op)]
  /\ UNCHANGED <<request, pc, idx, StepsCompleted, username, err, errors, calls,
                 appType, extra, subst, runStart>>

OtherReturn ==
  /\ other.pc = "forge" /\ other.idx > Len(other.request)
  /\ other' = [other EXCEPT !.username = CreatePayload(RoleArnOf(other.StepsCompleted)),
                            !.pc = "returned"]
  /\ UNCHANGED <<request, pc, idx, StepsCompleted, username, err, errors, calls, world,
                 appType, extra, subst, runStart>>

InitConc ==
  /\ request \in ConcRequests
  /\ pc = "forge"
  /\ idx = 1
  /\ StepsCompleted = EmptyMap
  /\ username = Unset
  /\ err = NilErr
  /\ errors = <<>>
  /\ calls = <<>>
  /\ world = EmptyWorld
  /\ appType = Unset
  /\ extra = RequestExtra
  /\ subst = NoSubst
  /\ runStart = <<>>
  /\ \E r \in ConcRequests \ {request} : \E g \in Guids : other = OtherOf(r, g)

NextConc ==
  \/ ForgeS3
  \/ ForgePolicy
  \/ ForgeRole
  \/ ForgeBindRole
  \/ ForgeDefault
  \/ ForgeReturn
  \/ OtherBegin
  \/ OtherStep
  \/ OtherReturn

SpecConc == InitConc /\ [][NextConc]_vars

Next ==
  \/ ForgeS3
  \/ ForgePolicy
  \/ ForgeRole
  \/ ForgeBindRole
  \/ ForgeDefault
  \/ ForgeReturn
  \/ TearDownBegin
  \/ TearDownUnbind
  \/ TearDownPolicy
  \/ TearDownRole
  \/ TearDownS3

NextAgain == Next \/ TearDownAgain

SpecAgain == InitAgain /\ [][NextAgain]_vars

Spec == Init /\ [][Next]_vars

\* ------------------------------------------------ what the claims speak of
\* the remote operation each case of the switch calls
CreateOp(name) ==
  CASE name = "s3" -> "CreateS3Bucket"
    [] name = "policy" -> "CreatePolicy"
    [] name = "role" -> "CreateRole"
    [] name = "bind_role" -> "BindPolicyToRole"

\* the remote operation each block of TearDown calls
CleanupOp(name) ==
  CASE name = "bind_role" -> "UnBindPolicyToRole"
    [] name = "policy" -> "DestroyPolicy"
    [] name = "role" -> "DestroyRole"
    [] name = "s3" -> "DestroyS3Bucket"

ForgeOps == {CreateOp(n) : n \in Recognized}

CleanupOps == {CleanupOp(n) : n \in Recognized}

IsForgeCall(c) == c.op \in ForgeOps

IsCleanupCall(c) == c.op \in CleanupOps

ForgeCalls == SelectSeq(calls, IsForgeCall)

TearDownCalls == SelectSeq(calls, IsCleanupCall)

Ops(cs) == [i \in 1..Len(cs) |-> cs[i].op]

Keys == DOMAIN StepsCompleted

ForgeReturned == pc # "forge"

AllForgeCallsOk == \A i \in 1..Len(ForgeCalls) : ForgeCalls[i].ok

LastForgeCallFailed == Len(ForgeCalls) > 0 /\ ~ForgeCalls[Len(ForgeCalls)].ok

NamesIn(lo, hi) == {request[i] : i \in lo..hi}

IsRecognized(n) == n \in Recognized

\* C1: when every remote call of the forge succeeded, ForgeApplication has
\* returned a nil error and the keys of StepsCompleted are exactly the
\* recognized step names that occur in the request.
C1_AllSucceedKeys ==
  (ForgeReturned /\ AllForgeCallsOk) =>
    /\ err = NilErr
    /\ Keys = NamesIn(1, Len(request)) \cap Recognized

C1_Witness ==
  /\ pc = "returned" /\ err = NilErr
  /\ request = <<"s3", "lambda", "s3", "role">>
  /\ Len(ForgeCalls) = 3

\* C2 as stated: when the call of step k failed, the error is non-nil, the
\* keys are the recognized names before k, and the name of step k and of
\* every later step is absent from StepsCompleted.
C2_Original ==
  (ForgeReturned /\ LastForgeCallFailed) =>
    /\ err # NilErr
    /\ Keys = NamesIn(1, idx - 1) \cap Recognized
    /\ \A j \in idx..Len(request) : request[j] \notin Keys

\* C2 as amended: when the call of step k failed, the error is non-nil, the
\* keys are exactly the recognized names at positions before k, and the name
\* of step k or of a later step is a key only when the same name also occurs
\* at a position before k.
C2_FailedStepKeys ==
  (ForgeReturned /\ LastForgeCallFailed) =>
    /\ err # NilErr
    /\ Keys = NamesIn(1, idx - 1) \cap Recognized
    /\ \A j \in idx..Len(request) :
         request[j] \in Keys => \E i \in 1..(idx - 1) : request[i] = request[j]

C2_Witness ==
  /\ pc = "returned" /\ err # NilErr
  /\ request = <<"s3", "policy", "role", "bind_role">>
  /\ idx = 3
  /\ Keys = {"s3", "policy"}

\* a key is present exactly when a call for a step of that name succeeded
LedgerMatchesCalls ==
  /\ Keys \subseteq Recognized
  /\ \A n \in Recognized :
       n \in Keys <=> \E i \in 1..Len(calls) : calls[i].op = CreateOp(n) /\ calls[i].ok

\* C3: in every state, during and after the forge, a key is in
\* StepsCompleted if and only if a remote creation (or bind) call for a step
\* of that name has returned success; and no step of ForgeApplication ever
\* removes a key.
C3_LedgerInvariant ==
  /\ []LedgerMatchesCalls
  /\ [][pc = "forge" => Keys \subseteq DOMAIN StepsCompleted']_vars

C3_Witness ==
  /\ pc = "forge"
  /\ Keys = {"role"}
  /\ Len(calls) = 1
  /\ idx = 2 /\ Len(request) = 3

\* the operations of the recognized steps among the first m steps, in order
ExpectedOps(m) ==
  LET rec == SelectSeq(SubSeq(request, 1, m), IsRecognized)
  IN  [i \in 1..Len(rec) |-> CreateOp(rec[i])]

\* the number of steps the forge has interpreted, the failed one included
Interpreted ==
  IF pc = "forge" THEN idx - 1
  ELSE IF err # NilErr THEN idx ELSE Len(request)

\* C4: the remote calls of one forge are one call per recognized step
\* occurrence, in the request's order, up to and including the first call
\* that fails: only the last call can have failed, and none follows it.
C4_CallSequence ==
  /\ Ops(ForgeCalls) = ExpectedOps(Interpreted)
  /\ \A i \in 1..(Len(ForgeCalls) - 1) : ForgeCalls[i].ok
  /\ LastForgeCallFailed => ForgeReturned

C4_Witness ==
  /\ pc = "returned"
  /\ request = <<"policy", "lambda", "policy", "s3">>
  /\ Len(ForgeCalls) = 2
  /\ LastForgeCallFailed

OkIndices(op) == {i \in 1..Len(calls) : calls[i].op = op /\ calls[i].ok}

CreatedBuckets == {calls[i].args[1] : i \in OkIndices("CreateS3Bucket")}

CreatedPolicies == {calls[i].ret : i \in OkIndices("CreatePolicy")}

CreatedRoles == {calls[i].args[1] : i \in OkIndices("CreateRole")}

CreatedBindings == {<<calls[i].args[1], calls[i].args[2]>> : i \in OkIndices("BindPolicyToRole")}

AllTearDownCallsOk == \A i \in 1..Len(TearDownCalls) : TearDownCalls[i].ok

FullRequest == <<"s3", "policy", "role", "bind_role">>

\* C5: after the forge has returned and TearDown has run on its ledger with
\* every destroy/unbind call succeeding, nothing the forge created still
\* exists and no binding it made remains; and a forge of s3, policy, role,
\* bind_role that returned no error has left the bucket, the policy and the
\* role in existence with the policy bound to the role.
C5_SagaOutcome ==
  /\ (pc = "td_returned" /\ AllTearDownCallsOk) =>
       /\ world.buckets \cap CreatedBuckets = {}
       /\ world.policies \cap CreatedPolicies = {}
       /\ world.roles \cap CreatedRoles = {}
       /\ world.bindings \cap CreatedBindings = {}
  /\ (pc = "returned" /\ err = NilErr /\ request = FullRequest) =>
       /\ ResourceName("bucket") \in world.buckets
       /\ Lookup(StepsCompleted, "policy", "output") \in world.policies
       /\ ResourceName("role") \in world.roles
       /\ <<Lookup(StepsCompleted, "policy", "output"), ResourceName("role")>> \in world.bindings

\* the place of a cleanup operation in the fixed order
Rank(op) ==
  CASE op = "UnBindPolicyToRole" -> 1
    [] op = "DestroyPolicy" -> 2
    [] op = "DestroyRole" -> 3
    [] op = "DestroyS3Bucket" -> 4

\* C6: the calls TearDown issues follow the order unbind, destroy-policy,
\* destroy-role, destroy-bucket, each at most once; with all four kinds
\* completed the calls are exactly these four, in this order.
C6_TearDownOrder ==
  /\ \A i, j \in 1..Len(TearDownCalls) :
       i < j => Rank(TearDownCalls[i].op) < Rank(TearDownCalls[j].op)
  /\ (pc = "td_returned" /\ Keys = Recognized) =>
       Ops(TearDownCalls) =
         <<"UnBindPolicyToRole", "DestroyPolicy", "DestroyRole", "DestroyS3Bucket">>

C6_Witness ==
  /\ pc = "td_returned"
  /\ Keys = Recognized
  /\ Len(TearDownCalls) = 4

IsFailed(c) == ~c.ok

FailedTearDownCalls == SelectSeq(TearDownCalls, IsFailed)

\* C7: TearDown never short-circuits: when it returns, the cleanup call of
\* every kind present in StepsCompleted has been attempted whatever failed
\* before it, and the error list holds one error per failed call, in call
\* order.
C7_NoShortCircuit ==
  /\ errors = [i \in 1..Len(FailedTearDownCalls) |-> ErrOf(FailedTearDownCalls[i].op)]
  /\ pc = "td_returned" =>
       \A n \in Keys : \E i \in 1..Len(TearDownCalls) : TearDownCalls[i].op = CleanupOp(n)

C7_Witness ==
  /\ pc = "td_returned"
  /\ Ops(TearDownCalls) = <<"DestroyPolicy", "DestroyRole", "DestroyS3Bucket">>
  /\ ~TearDownCalls[1].ok /\ TearDownCalls[2].ok /\ ~TearDownCalls[3].ok
  /\ Len(errors) = 2

CountOf(op) == Cardinality({i \in 1..Len(TearDownCalls) : TearDownCalls[i].op = op})

\* C8: TearDown issues the cleanup call of a kind exactly once when the
\* kind's key is in StepsCompleted and never when it is not; with an empty
\* StepsCompleted it issues no call and returns an empty error list.
C8_CleanupIffPresent ==
  /\ \A n \in Recognized : n \notin Keys => CountOf(CleanupOp(n)) = 0
  /\ pc = "td_returned" =>
       /\ \A n \in Recognized : CountOf(CleanupOp(n)) = (IF n \in Keys THEN 1 ELSE 0)
       /\ Keys = {} => (TearDownCalls = <<>> /\ errors = <<>>)

C8_Witness ==
  /\ pc = "td_returned"
  /\ Keys = {"s3", "bind_role"}
  /\ Ops(TearDownCalls) = <<"UnBindPolicyToRole", "DestroyS3Bucket">>

IsOkRoleCall(c) == c.op = "CreateRole" /\ c.ok

OkRoleCalls == SelectSeq(calls, IsOkRoleCall)

\* C9: when ForgeApplication has returned without error, the result username
\* is StepsCompleted["role"]["arn"], which is the ARN the last successful
\* role creation call returned (the empty string when there was none).
C9_UsernameIsRoleArn ==
  (ForgeReturned /\ err = NilErr) =>
    /\ username = Lookup(StepsCompleted, "role", "arn")
    /\ username = IF Len(OkRoleCalls) > 0
                    THEN OkRoleCalls[Len(OkRoleCalls)].ret
                    ELSE EmptyString

C9_Witness ==
  /\ pc = "returned" /\ err = NilErr
  /\ request = FullRequest
  /\ username = <<"arn", "role", "2">>
  /\ StepsCompleted["role"]["arn"] = username

NoRecognizedStep == NamesIn(1, Len(request)) \cap Recognized = {}

\* C10: interpreting a step whose name is not a built-in case issues no
\* remote call, leaves StepsCompleted and the error unchanged and moves on
\* to the next step; a request of unrecognized steps only returns a nil
\* error and an empty StepsCompleted.
C10_UnrecognizedNoOp ==
  /\ [][(InLoop /\ request[idx] \notin Recognized) =>
          /\ calls' = calls
          /\ world' = world
          /\ StepsCompleted' = StepsCompleted
          /\ err' = err
          /\ pc' = "forge"
          /\ idx' = idx + 1]_vars
  /\ []((ForgeReturned /\ NoRecognizedStep) =>
          (err = NilErr /\ Keys = {} /\ calls = <<>>))

C10_Witness ==
  /\ pc = "forge"
  /\ request = <<"s3", "lambda", "role">>
  /\ idx = 3
  /\ Keys = {"s3"}
  /\ Len(calls) = 1

\* ------------------------------------------------------------ termination
\* the code is sequential and every remote call returns: a step that can be
\* taken is taken
StepOrder == <<"s3", "policy", "lambda", "role", "bind_role">>

PosOf(n) == CHOOSE i \in 1..Len(StepOrder) : StepOrder[i] = n

\* the requests termination is checked on: up to MaxSteps steps of every
\* kind, repeated any number of times, in the order of the full request
FairRequests ==
  {r \in Requests : \A i \in 1..Len(r) : \A j \in i..Len(r) : PosOf(r[i]) <= PosOf(r[j])}

InitFair ==
  /\ request \in FairRequests
  /\ pc = "forge"
  /\ idx = 1
  /\ StepsCompleted = EmptyMap
  /\ username = Unset
  /\ err = NilErr
  /\ errors = <<>>
  /\ calls = <<>>
  /\ world = EmptyWorld
  /\ appType = Unset
  /\ extra = RequestExtra
  /\ subst = NoSubst
  /\ runStart = <<>>
  /\ other = NoOther

FairSpec == InitFair /\ [][Next]_vars /\ WF_vars(Next)

InTearDown == pc \in {TearDownOrder[i] : i \in 1..Len(TearDownOrder)}

\* C11: every ForgeApplication invocation eventually returns, and every
\* TearDown invocation that was started eventually returns its error list,
\* whatever its remote calls answered.
C11_Terminates ==
  /\ <>ForgeReturned
  /\ InTearDown ~> (pc = "td_returned")

C11_Witness ==
  /\ pc = "td_returned"
  /\ Len(TearDownCalls) = 4
  /\ \A i \in 1..4 : ~TearDownCalls[i].ok
  /\ Len(errors) = 4

IsBindCall(c) == c.op = "BindPolicyToRole"

\* C12: whenever the forge issues the bind call, the policy and role entries
\* are already in StepsCompleted, the call's arguments are their recorded
\* outputs, and a successful bind records bind_role with an empty mapping.
C12_BindAfterPolicyAndRole ==
  [][(Len(calls') > Len(calls) /\ IsBindCall(calls'[Len(calls')])) =>
       /\ "policy" \in Keys /\ "role" \in Keys
       /\ calls'[Len(calls')].args = <<StepsCompleted["policy"]["output"],
                                       StepsCompleted["role"]["output"]>>
       /\ calls'[Len(calls')].ok => StepsCompleted'["bind_role"] = EmptyMap]_vars

Subset4(w, v) ==
  /\ v.buckets \subseteq w.buckets
  /\ v.policies \subseteq w.policies
  /\ v.roles \subseteq w.roles
  /\ v.bindings \subseteq w.bindings

Created ==
  [buckets |-> CreatedBuckets, policies |-> CreatedPolicies,
   roles |-> CreatedRoles, bindings |-> CreatedBindings]

\* C13: during a ForgeApplication invocation, one that aborts included, no
\* unbind or destroy call is issued, and when it returns everything it
\* created still exists.
C13_ForgeNeverCompensates ==
  (pc \in {"forge", "returned"}) =>
    /\ TearDownCalls = <<>>
    /\ Subset4(world, Created)

C13_Witness ==
  /\ pc = "returned"
  /\ err = ErrOf("CreateRole")
  /\ request = <<"s3", "policy", "role", "bind_role">>
  /\ world.buckets # {} /\ world.policies # {}

\* C14: the result fields are written only by the return of a forge whose
\* steps all succeeded: a forge that returned an error has left them unset,
\* and a successful forge wrote them once, after its last step.
C14_ResultFieldsAtEnd ==
  /\ [][(username' # username \/ appType' # appType) =>
          /\ pc = "forge" /\ idx > Len(request)
          /\ username = Unset /\ appType = Unset
          /\ pc' = "returned" /\ err' = NilErr]_vars
  /\ []((ForgeReturned /\ err # NilErr) => (username = Unset /\ appType = Unset))
  /\ []((ForgeReturned /\ err = NilErr) => (username # Unset /\ appType # Unset))

C14_Witness ==
  /\ pc = "returned"
  /\ err = ErrOf("BindPolicyToRole")
  /\ "role" \in Keys
  /\ username = Unset

\* ---------------------------------------------- what substitution is to do
IsPrefix(t, s) == Len(t) <= Len(s) /\ SubSeq(s, 1, Len(t)) = t

Occurs(t, s) == \E j \in 1..Len(s) : IsPrefix(t, SubSeq(s, j, Len(s)))

RECURSIVE ReplaceAll(_, _, _)
\* s with every occurrence of the non-empty t, found from the left and not
\* overlapping an earlier one, replaced by v
ReplaceAll(s, t, v) ==
  IF s = EmptyString THEN EmptyString
  ELSE IF IsPrefix(t, s) THEN v \o ReplaceAll(SubSeq(s, Len(t) + 1, Len(s)), t, v)
  ELSE <<Head(s)>> \o ReplaceAll(Tail(s), t, v)

\* the step visits the entry of token name
Visits(name) == name \in subst.todo /\ subst'.todo = subst.todo \ {name}

PriorSteps == {"s3", "policy", "role"}

\* C15 as stated: an entry whose source is a completed step (s3, policy or
\* role) has every occurrence of its token replaced by that step's recorded
\* output, and no occurrence of the token is left in the returned payload.
C15_Original ==
  /\ [][\A name \in subst.todo :
          (Visits(name) /\ subst.subs[name] \in PriorSteps \cap Keys) =>
            subst'.cur = ReplaceAll(subst.cur, name,
                                    Lookup(StepsCompleted, subst.subs[name], "output"))]_vars
  /\ [](pc = "subst_returned" =>
          \A name \in DOMAIN subst.subs :
            subst.subs[name] \in PriorSteps \cap Keys => ~Occurs(name, subst.cur))

\* C15 as amended: when the loop visits an entry whose source is s3 and the
\* s3 step is completed, every occurrence of the entry's token in the payload
\* as it then stands is replaced by the s3 step's recorded output.
C15_S3Substitution ==
  [][\A name \in subst.todo :
       (Visits(name) /\ subst.subs[name] = "s3" /\ "s3" \in Keys) =>
         subst'.cur = ReplaceAll(subst.cur, name, StepsCompleted["s3"]["output"])]_vars

C15_Witness ==
  /\ pc = "subst_returned"
  /\ subst.payload = <<"b", "a">>
  /\ subst.subs = [t \in {<<"a">>} |-> "s3"]
  /\ Lookup(StepsCompleted, "s3", "output") = <<"b", "b">>
  /\ subst.cur = <<"b", "b", "b">>

Unresolvable(sub) ==
  \/ sub = "get_account" /\ "account" \notin DOMAIN extra
  \/ sub \in PriorSteps /\ sub \notin Keys

\* C16 as stated: visiting an entry whose source cannot be resolved leaves
\* the payload, and so every occurrence of the entry's token, unchanged.
C16_Original ==
  [][\A name \in subst.todo :
       (Visits(name) /\ Unresolvable(subst.subs[name])) => subst'.cur = subst.cur]_vars

\* C16 as amended: visiting a get_account or s3 entry whose source cannot be
\* resolved replaces every occurrence of the entry's token by the empty
\* string; an entry of any other source leaves the payload unchanged.
C16_UnresolvedIsEmptied ==
  [][\A name \in subst.todo :
       (Visits(name) /\ Unresolvable(subst.subs[name])) =>
         subst'.cur = IF subst.subs[name] \in {"get_account", "s3"}
                        THEN ReplaceAll(subst.cur, name, EmptyString)
                        ELSE subst.cur]_vars

C16_Witness ==
  /\ pc = "subst_returned"
  /\ StepsCompleted = EmptyMap
  /\ subst.payload = <<"b", "a", "a">>
  /\ subst.subs = [t \in {<<"a">>} |-> "s3"]
  /\ subst.cur = <<"b">>

\* the tokens the code replaces, and what by
Handled == {t \in DOMAIN subst.subs : subst.subs[t] \in {"get_account", "s3"}}

ValueOf(t) ==
  IF subst.subs[t] = "s3" THEN Lookup(StepsCompleted, "s3", "output")
  ELSE Get(extra, "account")

PrefixFree == \A t, u \in Handled : IsPrefix(t, u) => t = u

RECURSIVE Simultaneous(_)
\* s with the tokens replaced in one pass: what is put in is not looked at
Simultaneous(s) ==
  IF s = EmptyString THEN EmptyString
  ELSE LET m == {t \in Handled : IsPrefix(t, s)}
       IN  IF m = {}
             THEN <<Head(s)>> \o Simultaneous(Tail(s))
             ELSE LET t == CHOOSE u \in m : TRUE
                  IN  ValueOf(t) \o Simultaneous(SubSeq(s, Len(t) + 1, Len(s)))

\* C17: the payload substiteInPayload returns is the one payload every
\* visiting order of the map's entries gives, and it is the original payload
\* with all tokens replaced at once.
C17_OrderIndependent ==
  pc = "subst_returned" =>
    /\ substiteInPayload(subst.payload, StepsCompleted, extra, subst.subs) = {subst.cur}
    /\ PrefixFree => subst.cur = Simultaneous(subst.payload)

\* the calls of the k-th TearDown on the ledger, without their outcomes
RunCalls(k) ==
  LET lo == runStart[k] + 1
      hi == IF k < Len(runStart) THEN runStart[k + 1] ELSE Len(calls)
  IN  [i \in 1..(hi - lo + 1) |-> <<calls[lo + i - 1].op, calls[lo + i - 1].args>>]

\* C18: TearDown only reads the ledger: from the return of the forge on,
\* StepsCompleted and the request (with its extra data) stay as they are
\* whatever the cleanup calls return, and a later TearDown on the same ledger
\* issues the same calls, in the same order, as the first.
C18_TearDownReadsOnly ==
  /\ [][ForgeReturned =>
          /\ StepsCompleted' = StepsCompleted
          /\ request' = request
          /\ extra' = extra]_vars
  /\ []((pc = "td_returned" /\ Len(runStart) >= 2) =>
          \A k \in 2..Len(runStart) : RunCalls(k) = RunCalls(1))

C18_Witness ==
  /\ pc = "td_returned"
  /\ Len(runStart) = 2
  /\ Keys = Recognized
  /\ Len(RunCalls(2)) = 4
  /\ \A i \in 5..8 : calls[i].ok

Targets(op) == {TearDownCalls[i].args : i \in {j \in 1..Len(TearDownCalls) : TearDownCalls[j].op = op}}

\* C19: TearDown targets exactly what the forge created: the bucket names
\* destroyed are those passed to a successful create-bucket, the policy ARNs
\* destroyed those a successful create-policy returned, the role names
\* destroyed those passed to a successful create-role, and the pairs unbound
\* those passed to a successful bind, duplicates of a step name included.
C19_TargetsWhatWasCreated ==
  pc = "td_returned" =>
    /\ Targets("DestroyS3Bucket") = {<<b>> : b \in CreatedBuckets}
    /\ Targets("DestroyPolicy") = {<<a>> : a \in CreatedPolicies}
    /\ Targets("DestroyRole") = {<<r>> : r \in CreatedRoles}
    /\ Targets("UnBindPolicyToRole") = CreatedBindings

\* what a successful call of the forge puts on the ledger
DataOf(c) ==
  CASE c.op = "CreateS3Bucket" -> [output |-> c.args[1]]
    [] c.op = "CreatePolicy" -> [output |-> c.ret]
    [] c.op = "CreateRole" -> [output |-> c.args[1], arn |-> c.ret]
    [] c.op = "BindPolicyToRole" -> EmptyMap

NameOfOp(op) == CHOOSE n \in Recognized : CreateOp(n) = op

OkCallsFor(cs, n) == {i \in 1..Len(cs) : cs[i].op = CreateOp(n) /\ cs[i].ok}

\* the ledger an invocation that ran alone would hold after the calls cs
LedgerFrom(cs) ==
  [n \in {m \in Recognized : OkCallsFor(cs, m) # {}} |->
     DataOf(cs[CHOOSE i \in OkCallsFor(cs, n) : \A j \in OkCallsFor(cs, n) : j <= i])]

\* C20: with two ForgeApplication invocations interleaved on one provider,
\* each ledger starts empty and holds, at every moment and when returned,
\* exactly what its own invocation's successful calls put there, as if the
\* invocation had run alone.
C20_LedgerIsolation ==
  /\ StepsCompleted = LedgerFrom(calls)
  /\ other.StepsCompleted = LedgerFrom(other.calls)

C20_Witness ==
  /\ pc = "returned" /\ other.pc = "returned"
  /\ err = NilErr /\ other.err = NilErr
  /\ request = <<"s3", "policy", "role", "bind_role">>
  /\ other.request = <<"role", "lambda", "policy">>
  /\ other.guid = "g1"
  /\ calls[1].op = "CreateS3Bucket" /\ other.calls[1].op = "CreateRole"
  /\ DOMAIN other.StepsCompleted = {"role", "policy"}
  /\ Keys = Recognized


====
